---- MODULE Spec2Model ----
(***************************************************************************)
(* The UDP input service of services/udp/service.go: the lifecycle         *)
(* (Open, Close), the three worker goroutines (serve, parser, writer), the *)
(* raw-byte queue between serve and parser, the point batcher between      *)
(* parser and writer, the readiness flag and the statistics counters.      *)
(***************************************************************************)
EXTENDS Integers, Sequences, FiniteSets, TLC

(* ------------------------------ bounds -------------------------------- *)

\* Capacity of the raw-byte queue (make(chan []byte, parserChanLen)); the
\* source uses 1000, the model a small capacity so that a full queue occurs.
parserChanLen == 1
\* Datagrams the network delivers in one behaviour.
MaxDatagrams == 2
\* Largest number of records in one datagram.
MaxPoints == 2
\* Transient read errors of the socket in one behaviour.
MaxReadErr == 1
\* Open calls that get past the "already open" check in one behaviour.
MaxOpens == 2
\* The batcher's size threshold (Config.BatchSize) and input capacity.
BatchSize == 2
InCap == 1

(* ------------------------------ state --------------------------------- *)

VARIABLES
    config,       \* Service.config: BindAddress, Database, ReadBuffer
    done,         \* Service.done: "nil", "open" (made, not closed), "closed"
    conn,         \* Service.conn: "nil", "open", "closed"
    addr,         \* Service.addr: "nil" or "set"
    wg,           \* Service.wg: the WaitGroup counter
    ready,        \* Service.ready
    closePc,      \* Close: "idle", or "wait" (in wg.Wait, holding mu)
    parserChan,   \* Service.parserChan: queue of datagrams
    stats,        \* Service.stats: the seven counters
    servePc,      \* serve(): "none","start","loop","read","send","exited"
    serveBuf,     \* serve(): bufCopy, the datagram about to be enqueued
    parserPc,     \* parser(): "none","select","fwd","count","exited"
    points,       \* parser(): the decoded points of the current datagram
    pidx,         \* parser(): index of the next point to forward
    writerPc,     \* writer(): "none","select","init","setready","write","exited"
    batch,        \* writer(): the batch being handled
    bStarted,     \* batcher: Start() was called
    bIn,          \* batcher: input queue of points
    bBatch,       \* batcher: the partially filled batch
    bOut,         \* batcher: emitted batches not yet pulled
    ret,          \* the last return of Open or Close: the call, its error
                  \* ("pending" while Close waits), and whether it returned
                  \* at the already-open / already-closed check
    hist          \* history of calls and events (observation only)

vars == <<config, done, conn, addr, wg, ready, closePc, parserChan, stats,
          servePc, serveBuf, parserPc, points, pidx, writerPc, batch,
          bStarted, bIn, bBatch, bOut, ret, hist>>

(* ----------------------------- helpers -------------------------------- *)

\* Configurations NewService may be given.
Configs == [BindAddress : {"", ":8089"}, Database : {"", "udp"}, ReadBuffer : {1}]

\* A datagram's payload: whether the decoder accepts it, and the number of
\* well-formed records it carries.
Payloads == {[ok |-> TRUE, n |-> k] : k \in 0..MaxPoints} \cup {[ok |-> FALSE, n |-> 0]}

\* The value of serve's bufCopy while it holds no datagram.
NoDatagram == [id |-> 0, ok |-> FALSE, n |-> 0]

\* n of ReadFromUDP: one byte per well-formed record, one more for a bad one.
BytesOf(d) == d.n + (IF d.ok THEN 0 ELSE 1)

\* models.ParsePointsWithPrecision: the points of a datagram, in order.
\* Point i of datagram k is <<k, i>>.
ParsePoints(d) == [i \in 1..d.n |-> <<d.id, i>>]
ParseErr(d) == ~d.ok

\* closed() without the nil check of line 285: a service whose signal was
\* never created, or was dropped by Close, counts as open.
closedIgnoresNil == done = "closed"

\* Service.closed(): the signal has fired, or there is none.
closed == done = "closed" \/ done = "nil"

AddStat(s, f, k) == [s EXCEPT ![f] = @ + k]

Range(s) == {s[i] : i \in 1..Len(s)}

ZeroStats == [PointsReceived |-> 0, BytesReceived |-> 0, PointsParseFail |-> 0,
              ReadFail |-> 0, BatchesTransmitted |-> 0, PointsTransmitted |-> 0,
              BatchesTransmitFail |-> 0]

ZeroHist == [nRecv |-> 0, nReadErr |-> 0, nOpens |-> 0, nCloses |-> 0,
             nEnq |-> 0, nDeq |-> 0, enqAtClose |-> 0,
             fwd |-> <<>>, fwdAtClose |-> 0,
             parsed |-> <<>>,
             pulled |-> <<>>, creates |-> <<>>, writes |-> <<>>, drops |-> <<>>,
             lifecycle |-> "Closed"]

(* ------------------------------- Init --------------------------------- *)

\* NewService: queues made and empty, counters zero, no signal, no socket.
Init ==
    /\ config \in Configs
    /\ done = "nil" /\ conn = "nil" /\ addr = "nil"
    /\ wg = 0 /\ ready = FALSE /\ closePc = "idle"
    /\ parserChan = <<>> /\ stats = ZeroStats
    /\ servePc = "none" /\ serveBuf = NoDatagram
    /\ parserPc = "none" /\ points = <<>> /\ pidx = 1
    /\ writerPc = "none" /\ batch = <<>>
    /\ bStarted = FALSE /\ bIn = <<>> /\ bBatch = <<>> /\ bOut = <<>>
    /\ ret = [op |-> "none", err |-> "nil", noop |-> FALSE]
    /\ hist = ZeroHist

(* ------------------------- Open and Close ----------------------------- *)

\* Open without the check of line 89: it never takes the service for open.
AlreadyOpenNever == FALSE

\* Open, line 89: the service is treated as already open.
AlreadyOpen == ~closed

\* Open, lines 94-117: the error Open returns, "nil" for none. env is what
\* the network does: "ok", or the step that fails.
OpenError(env) ==
    IF config.BindAddress = "" THEN "nobind"
    ELSE IF config.Database = "" THEN "nodb"
    ELSE IF env = "resolve" THEN "resolve"
    ELSE IF env = "listen" THEN "listen"
    ELSE IF config.ReadBuffer # 0 /\ env = "readbuffer" THEN "readbuffer"
    ELSE "nil"

\* Open keeping the fired signal of the previous lifetime instead of making
\* a fresh one.
OpenSignalStale(err) == IF hist.nCloses > 0 THEN "closed" ELSE "open"

\* Open, line 92: the signal Open leaves behind, made before validation.
OpenSignal(err) == "open"

\* Open holds mu from entry to return and never blocks inside, so it is one
\* step, taken when mu is free.
Open(env) ==
    /\ closePc = "idle"
    /\ IF AlreadyOpen
       THEN /\ ret' = [op |-> "Open", err |-> "nil", noop |-> TRUE]
            /\ UNCHANGED <<config, done, conn, addr, wg, ready, closePc,
                           parserChan, stats, servePc, serveBuf, parserPc,
                           points, pidx, writerPc, batch, bStarted, bIn,
                           bBatch, bOut, hist>>
       ELSE /\ hist.nOpens < MaxOpens
            /\ LET err == OpenError(env) IN
               /\ done' = OpenSignal(err)
               /\ addr' = IF err \in {"nobind", "nodb"} THEN addr
                          ELSE IF err = "resolve" THEN "nil" ELSE "set"
               /\ conn' = IF err \in {"nobind", "nodb", "resolve"} THEN conn
                          ELSE IF err = "listen" THEN "nil" ELSE "open"
               /\ ret' = [op |-> "Open", err |-> err, noop |-> FALSE]
               /\ IF err = "nil"
                  THEN /\ wg' = wg + 3
                       /\ servePc' = "start"
                       /\ parserPc' = "select"
                       /\ writerPc' = "select"
                       /\ hist' = [hist EXCEPT !.nOpens = @ + 1,
                                               !.lifecycle = "Open"]
                  ELSE /\ hist' = [hist EXCEPT !.nOpens = @ + 1]
                       /\ UNCHANGED <<wg, servePc, parserPc, writerPc>>
            /\ UNCHANGED <<config, ready, closePc, parserChan, stats,
                           serveBuf, points, pidx, batch, bStarted, bIn,
                           bBatch, bOut>>

\* PointBatcher.Flush: every point the batcher holds is emitted as one batch.
FlushOut == IF bBatch \o bIn = <<>> THEN bOut ELSE Append(bOut, bBatch \o bIn)

\* Close, lines 245-258: lock, the closed() check, close(done), conn.Close(),
\* batcher.Flush(); Close then blocks in wg.Wait() holding mu.
CloseBegin ==
    /\ closePc = "idle"
    /\ IF closed
       THEN /\ ret' = [op |-> "Close", err |-> "nil", noop |-> TRUE]
            /\ UNCHANGED <<config, done, conn, addr, wg, ready, closePc,
                           parserChan, stats, servePc, serveBuf, parserPc,
                           points, pidx, writerPc, batch, bStarted, bIn,
                           bBatch, bOut, hist>>
       ELSE /\ done' = "closed"
            /\ conn' = IF conn # "nil" THEN "closed" ELSE conn
            /\ bOut' = FlushOut
            /\ bIn' = <<>>
            /\ bBatch' = <<>>
            /\ closePc' = "wait"
            /\ ret' = [op |-> "Close", err |-> "pending", noop |-> FALSE]
            /\ hist' = [hist EXCEPT !.enqAtClose = hist.nEnq,
                                    !.fwdAtClose = Len(hist.fwd)]
            /\ UNCHANGED <<config, addr, wg, ready, parserChan, stats,
                           servePc, serveBuf, parserPc, points, pidx,
                           writerPc, batch, bStarted>>

\* Close returning without waiting on the completion barrier.
CloseFinishNoWait ==
    /\ closePc = "wait"
    /\ done' = "nil"
    /\ conn' = "nil"
    /\ closePc' = "idle"
    /\ ret' = [op |-> "Close", err |-> "nil", noop |-> FALSE]
    /\ hist' = [hist EXCEPT !.nCloses = @ + 1, !.lifecycle = "Closed"]
    /\ UNCHANGED <<config, addr, wg, ready, parserChan, stats, servePc,
                   serveBuf, parserPc, points, pidx, writerPc, batch,
                   bStarted, bIn, bBatch, bOut>>

\* Close, lines 258-268: wg.Wait() returns, the references are dropped, mu
\* is released and Close returns nil.
CloseFinish ==
    /\ closePc = "wait"
    /\ wg = 0
    /\ done' = "nil"
    /\ conn' = "nil"
    /\ closePc' = "idle"
    /\ ret' = [op |-> "Close", err |-> "nil", noop |-> FALSE]
    /\ hist' = [hist EXCEPT !.nCloses = @ + 1, !.lifecycle = "Closed"]
    /\ UNCHANGED <<config, addr, wg, ready, parserChan, stats, servePc,
                   serveBuf, parserPc, points, pidx, writerPc, batch,
                   bStarted, bIn, bBatch, bOut>>

\* Closed(), lines 272-276, and Ready(), lines 289-294: what they return
\* once they hold the lock.
Closed == closed
Ready == ready

(* ------------------------------ serve --------------------------------- *)

\* serve, line 193: batcher.Start().
ServeStart ==
    /\ servePc = "start"
    /\ bStarted' = TRUE
    /\ servePc' = "loop"
    /\ UNCHANGED <<config, done, conn, addr, wg, ready, closePc, parserChan,
                   stats, serveBuf, parserPc, points, pidx, writerPc, batch,
                   bIn, bBatch, bOut, ret, hist>>

\* serve, lines 195-200: the non-blocking check of the signal.
ServeSelect ==
    /\ servePc = "loop"
    /\ IF done = "closed"
       THEN servePc' = "exited" /\ wg' = wg - 1
       ELSE servePc' = "read" /\ wg' = wg
    /\ UNCHANGED <<config, done, conn, addr, ready, closePc, parserChan,
                   stats, serveBuf, parserPc, points, pidx, writerPc, batch,
                   bStarted, bIn, bBatch, bOut, ret, hist>>

\* serve, lines 201-212: ReadFromUDP returns. On a closed socket it returns
\* an error at once; on an open one a datagram or a transient error.
ServeRead ==
    /\ servePc = "read"
    /\ \/ /\ conn = "closed"
          /\ stats' = AddStat(stats, "ReadFail", 1)
          /\ servePc' = "loop"
          /\ UNCHANGED <<serveBuf, hist>>
       \/ /\ conn = "open"
          /\ hist.nReadErr < MaxReadErr
          /\ stats' = AddStat(stats, "ReadFail", 1)
          /\ servePc' = "loop"
          /\ hist' = [hist EXCEPT !.nReadErr = @ + 1]
          /\ UNCHANGED serveBuf
       \/ /\ conn = "open"
          /\ hist.nRecv < MaxDatagrams
          /\ \E p \in Payloads :
                LET d == [id |-> hist.nRecv + 1, ok |-> p.ok, n |-> p.n] IN
                /\ stats' = AddStat(stats, "BytesReceived", BytesOf(d))
                /\ serveBuf' = d
          /\ servePc' = "send"
          /\ hist' = [hist EXCEPT !.nRecv = @ + 1]
    /\ UNCHANGED <<config, done, conn, addr, wg, ready, closePc, parserChan,
                   parserPc, points, pidx, writerPc, batch, bStarted, bIn,
                   bBatch, bOut, ret>>

\* serve, line 213: the blocking send on the raw-byte queue.
ServeSend ==
    /\ servePc = "send"
    /\ Len(parserChan) < parserChanLen
    /\ parserChan' = Append(parserChan, serveBuf)
    /\ serveBuf' = NoDatagram
    /\ servePc' = "loop"
    /\ hist' = [hist EXCEPT !.nEnq = @ + 1]
    /\ UNCHANGED <<config, done, conn, addr, wg, ready, closePc, stats,
                   parserPc, points, pidx, writerPc, batch, bStarted, bIn,
                   bBatch, bOut, ret>>

(* ------------------------------ parser -------------------------------- *)

\* The counter counting datagrams instead of points.
ReceivedIncrementOne(pts) == 1

\* parser, line 238: the increment of PointsReceived after the loop.
ReceivedIncrement(pts) == Len(pts)

\* parser, lines 222-234: the select. With the signal fired and a datagram
\* queued either case may be taken. A rejected datagram is counted and
\* dropped; an accepted one goes to the forwarding loop.
ParserSelect ==
    /\ parserPc = "select"
    /\ \/ /\ done = "closed"
          /\ parserPc' = "exited"
          /\ wg' = wg - 1
          /\ UNCHANGED <<parserChan, stats, points, pidx, hist>>
       \/ /\ parserChan # <<>>
          /\ LET d == Head(parserChan) IN
             /\ parserChan' = Tail(parserChan)
             /\ hist' = [hist EXCEPT !.nDeq = @ + 1,
                                     !.parsed = Append(@, d)]
             /\ wg' = wg
             /\ IF ParseErr(d)
                THEN /\ stats' = AddStat(stats, "PointsParseFail", 1)
                     /\ parserPc' = "select"
                     /\ UNCHANGED <<points, pidx>>
                ELSE IF ParsePoints(d) = <<>>
                THEN /\ stats' = AddStat(stats, "PointsReceived",
                                         ReceivedIncrement(ParsePoints(d)))
                     /\ parserPc' = "select"
                     /\ UNCHANGED <<points, pidx>>
                ELSE /\ points' = ParsePoints(d)
                     /\ pidx' = 1
                     /\ parserPc' = "fwd"
                     /\ stats' = stats
    /\ UNCHANGED <<config, done, conn, addr, ready, closePc, servePc,
                   serveBuf, writerPc, batch, bStarted, bIn, bBatch, bOut, ret>>

\* parser, lines 235-237: one blocking send of the loop on batcher.In().
ParserForward ==
    /\ parserPc = "fwd"
    /\ Len(bIn) < InCap
    /\ bIn' = Append(bIn, points[pidx])
    /\ hist' = [hist EXCEPT !.fwd = Append(@, points[pidx])]
    /\ pidx' = pidx + 1
    /\ parserPc' = IF pidx = Len(points) THEN "count" ELSE "fwd"
    /\ UNCHANGED <<config, done, conn, addr, wg, ready, closePc, parserChan,
                   stats, servePc, serveBuf, points, writerPc, batch,
                   bStarted, bBatch, bOut, ret>>

\* parser, line 238: with every point of the datagram forwarded, the points
\* are counted as received.
ParserCount ==
    /\ parserPc = "count"
    /\ stats' = AddStat(stats, "PointsReceived", ReceivedIncrement(points))
    /\ parserPc' = "select"
    /\ points' = <<>>
    /\ pidx' = 1
    /\ UNCHANGED <<config, done, conn, addr, wg, ready, closePc, parserChan,
                   servePc, serveBuf, writerPc, batch, bStarted, bIn, bBatch,
                   bOut, ret, hist>>

(* ------------------------------ batcher ------------------------------- *)

\* The batcher takes a point from its input; a batch that reaches the size
\* threshold is emitted at once.
BatcherTake ==
    /\ bStarted
    /\ bIn # <<>>
    /\ bIn' = Tail(bIn)
    /\ IF Len(bBatch) + 1 >= BatchSize
       THEN bOut' = Append(bOut, Append(bBatch, Head(bIn))) /\ bBatch' = <<>>
       ELSE bBatch' = Append(bBatch, Head(bIn)) /\ bOut' = bOut
    /\ UNCHANGED <<config, done, conn, addr, wg, ready, closePc, parserChan,
                   stats, servePc, serveBuf, parserPc, points, pidx,
                   writerPc, batch, bStarted, ret, hist>>

\* The timeout of a partially filled batch elapses: it is emitted.
BatcherTimeout ==
    /\ bStarted
    /\ bBatch # <<>>
    /\ bOut' = Append(bOut, bBatch)
    /\ bBatch' = <<>>
    /\ UNCHANGED <<config, done, conn, addr, wg, ready, closePc, parserChan,
                   stats, servePc, serveBuf, parserPc, points, pidx,
                   writerPc, batch, bStarted, bIn, ret, hist>>

(* ------------------------------ writer -------------------------------- *)

\* The writer without the `continue`: it falls through to the write.
AfterCreateFailWrites == "write"

\* createInternalStorage marking the service ready although the create
\* request failed.
AfterCreateFailSetsReady == "setready"

\* The writer returning from its loop when the create request fails.
AfterCreateFailExits == "exited"

\* writer, lines 166-171: where the loop goes after createInternalStorage
\* returned an error: `continue`, back to the select.
AfterCreateFail == "select"

\* createInternalStorage without the fast path: it always asks.
SkipCreateNever == FALSE

\* createInternalStorage, lines 308-310: the create request is skipped.
SkipCreate == ready

\* The writer counting a failed write as transmitted as well.
WriteStatsAlwaysTx(b, ok) ==
    IF ok
    THEN AddStat(AddStat(stats, "BatchesTransmitted", 1),
                 "PointsTransmitted", Len(b))
    ELSE AddStat(AddStat(stats, "BatchesTransmitted", 1),
                 "BatchesTransmitFail", 1)

\* The writer counting one point more than the batch it wrote holds.
WriteStatsOnePointMore(b, ok) ==
    IF ok
    THEN AddStat(AddStat(stats, "BatchesTransmitted", 1),
                 "PointsTransmitted", Len(b) + 1)
    ELSE AddStat(stats, "BatchesTransmitFail", 1)

\* writer, lines 174-175 and 180: the counters after a write.
WriteStats(b, ok) ==
    IF ok
    THEN AddStat(AddStat(stats, "BatchesTransmitted", 1),
                 "PointsTransmitted", Len(b))
    ELSE AddStat(stats, "BatchesTransmitFail", 1)

\* writer, lines 163-164 and 183-184: the select. With the signal fired and
\* a batch on the batcher's output either case may be taken.
WriterSelect ==
    /\ writerPc = "select"
    /\ \/ /\ done = "closed"
          /\ writerPc' = "exited"
          /\ wg' = wg - 1
          /\ UNCHANGED <<batch, bOut, hist>>
       \/ /\ bOut # <<>>
          /\ batch' = Head(bOut)
          /\ bOut' = Tail(bOut)
          /\ writerPc' = "init"
          /\ hist' = [hist EXCEPT !.pulled = Append(@, Head(bOut))]
          /\ wg' = wg
    /\ UNCHANGED <<config, done, conn, addr, ready, closePc, parserChan,
                   stats, servePc, serveBuf, parserPc, points, pidx,
                   bStarted, bIn, bBatch, ret>>

\* createInternalStorage, lines 305-314: the flag is read under mu.RLock(),
\* which waits while Close holds mu; if it is unset CreateDatabase is called
\* and succeeds or fails.
WriterInit ==
    /\ writerPc = "init"
    /\ closePc = "idle"
    /\ IF SkipCreate
       THEN /\ writerPc' = "write"
            /\ UNCHANGED <<batch, hist>>
       ELSE \E ok \in BOOLEAN :
            IF ok
            THEN /\ writerPc' = "setready"
                 /\ hist' = [hist EXCEPT !.creates = Append(@, TRUE)]
                 /\ batch' = batch
            ELSE /\ writerPc' = AfterCreateFail
                 /\ hist' = [hist EXCEPT !.creates = Append(@, FALSE),
                                         !.drops = Append(@, batch)]
                 /\ batch' = IF AfterCreateFail = "select" THEN <<>> ELSE batch
    /\ UNCHANGED <<config, done, conn, addr, wg, ready, closePc, parserChan,
                   stats, servePc, serveBuf, parserPc, points, pidx,
                   bStarted, bIn, bBatch, bOut, ret>>

\* createInternalStorage, lines 317-320: the flag is set under mu.Lock(),
\* which waits while Close holds mu.
WriterSetReady ==
    /\ writerPc = "setready"
    /\ closePc = "idle"
    /\ ready' = TRUE
    /\ writerPc' = "write"
    /\ UNCHANGED <<config, done, conn, addr, wg, closePc, parserChan, stats,
                   servePc, serveBuf, parserPc, points, pidx, batch,
                   bStarted, bIn, bBatch, bOut, ret, hist>>

\* writer, lines 173-181: WritePointsPrivileged succeeds or fails.
WriterWrite ==
    /\ writerPc = "write"
    /\ \E ok \in BOOLEAN :
          /\ stats' = WriteStats(batch, ok)
          /\ hist' = [hist EXCEPT !.writes = Append(@, [batch |-> batch, ok |-> ok])]
    /\ writerPc' = "select"
    /\ batch' = <<>>
    /\ UNCHANGED <<config, done, conn, addr, wg, ready, closePc, parserChan,
                   servePc, serveBuf, parserPc, points, pidx, bStarted, bIn,
                   bBatch, bOut, ret>>

(* --------------------------- specification ---------------------------- *)

Worker ==
    \/ ServeStart \/ ServeSelect \/ ServeRead \/ ServeSend
    \/ ParserSelect \/ ParserForward \/ ParserCount
    \/ BatcherTake \/ BatcherTimeout
    \/ WriterSelect \/ WriterInit \/ WriterSetReady \/ WriterWrite

Next ==
    \/ \E env \in {"ok", "resolve", "listen", "readbuffer"} : Open(env)
    \/ CloseBegin
    \/ CloseFinish
    \/ Worker

Spec == Init /\ [][Next]_vars

\* The Go scheduler runs every goroutine that can take a step: weak fairness
\* of each worker, of the batcher and of the caller of Close. Which ready
\* case a select takes is left open.
Fairness ==
    /\ WF_vars(ServeStart \/ ServeSelect \/ ServeRead \/ ServeSend)
    /\ WF_vars(ParserSelect \/ ParserForward \/ ParserCount)
    /\ WF_vars(BatcherTake \/ BatcherTimeout)
    /\ WF_vars(WriterSelect \/ WriterInit \/ WriterSetReady \/ WriterWrite)
    /\ WF_vars(CloseFinish)

FairSpec == Spec /\ Fairness

(* ------------------------ observation helpers ------------------------- *)

\* The workers that have been launched and have not exited.
Running ==
    (IF servePc \in {"start", "loop", "read", "send"} THEN 1 ELSE 0) +
    (IF parserPc \in {"select", "fwd", "count"} THEN 1 ELSE 0) +
    (IF writerPc \in {"select", "init", "setready", "write"} THEN 1 ELSE 0)

\* The Open state of the lifecycle: an Open has launched the workers and no
\* Close has fired the signal since.
IsOpen == hist.lifecycle = "Open" /\ done = "open"

\* Close has returned from a shutdown and no Open has followed.
CloseReturned ==
    closePc = "idle" /\ done = "nil" /\ ret.op = "Close" /\ ~ret.noop

\* The points of the batches the writer attempted: submitted to the backend,
\* or dropped after a failed create request.
AttemptedPoints ==
    UNION ({Range(hist.writes[i].batch) : i \in 1..Len(hist.writes)}
           \cup {Range(hist.drops[i]) : i \in 1..Len(hist.drops)})

(* ------------------------------ claims -------------------------------- *)

\* C1: Close always terminates. Under fair scheduling, whenever Close has
\* fired the signal and waits on the completion barrier, it eventually
\* returns with the service Closed and the three workers exited.
C1_CloseTerminates ==
    (closePc = "wait") ~> (closePc = "idle" /\ done = "nil" /\ Running = 0)

\* C2: flush-on-close loses no accepted data. When Close has returned, every
\* point the parser had forwarded to the batcher when Close was called is in
\* a batch the writer pulled and attempted, and no emitted batch is left.
C2_FlushLosesNothing ==
    CloseReturned =>
        /\ \A i \in 1..hist.fwdAtClose : hist.fwd[i] \in AttemptedPoints
        /\ (hist.fwdAtClose > 0 => bOut = <<>>)

\* C3: every datagram enqueued on the raw-byte queue before Close is decoded
\* by the parser before it exits: when Close has returned, the parser has
\* dequeued every datagram that was enqueued when Close was called (the
\* queue is first-in first-out, so it holds none of them any more).
C3_QueuedDatagramsParsed ==
    CloseReturned => hist.nDeq >= hist.enqAtClose

\* Everything but the recorded return value.
state == <<config, done, conn, addr, wg, ready, closePc, parserChan, stats,
           servePc, serveBuf, parserPc, points, pidx, writerPc, batch,
           bStarted, bIn, bBatch, bOut, hist>>

\* C4: Open and Close are idempotent. While the service is Open exactly
\* three workers exist; an Open call on an Open service returns no error
\* and changes nothing (endpoint, signal, workers); a Close call on a
\* Closed service, a never-opened one included, returns no error and
\* changes nothing.
C4_Idempotent ==
    /\ [](IsOpen => wg = 3 /\ Running = 3)
    /\ [][(IsOpen /\ \E env \in {"ok", "resolve", "listen", "readbuffer"} : Open(env))
            => (ret'.err = "nil" /\ UNCHANGED state)]_vars
    /\ [][(closed /\ CloseBegin) => (ret'.err = "nil" /\ UNCHANGED state)]_vars

\* C4's case: an Open call has returned at the already-open check of an Open
\* service with its three workers.
C4_Witness == IsOpen /\ ret.op = "Open" /\ ret.noop /\ hist.nRecv > 0

\* C5: an Open that returns an error leaves the service Closed with nothing
\* allocated: no signal, no endpoint, no worker, and Closed() true.
C5_FailedOpenLeavesClosed ==
    (ret.op = "Open" /\ ret.err # "nil") =>
        (done = "nil" /\ conn = "nil" /\ wg = 0 /\ Running = 0 /\ Closed)

\* The number of failed create requests, and whether one has succeeded.
CreateFails == Cardinality({i \in 1..Len(hist.creates) : ~hist.creates[i]})
CreateSucceeded == \E i \in 1..Len(hist.creates) : hist.creates[i]

\* The batches submitted to the backend, in order.
Submitted == [i \in 1..Len(hist.writes) |-> hist.writes[i].batch]

\* C6: storage initialization is exactly-once on success. The create request
\* is issued for the first batch the writer handles, and once a create
\* request has succeeded none is made again: a success is the last request.
C6_InitExactlyOnce ==
    /\ \A i \in 1..Len(hist.creates) : hist.creates[i] => i = Len(hist.creates)
    /\ (Len(hist.pulled) >= 1 /\ ~(Len(hist.pulled) = 1 /\ writerPc = "init"))
          => Len(hist.creates) >= 1

\* C6's case: a create request has succeeded and two batches have been
\* handled after it.
C6_Witness ==
    /\ CreateSucceeded
    /\ Len(hist.writes) >= 3
    /\ Len(hist.creates) = 1

\* C7: a failed create request drops its batch without a write, leaves the
\* readiness flag false and the writer running, and the next batch issues
\* the request again. With k failures before the success, exactly the first
\* k batches pulled are dropped, every later batch is submitted to the
\* backend (at most the one in hand is not yet), and the flag is true once
\* the success has been recorded.
C7_InitFailureDropsBatch ==
    /\ Len(hist.drops) = CreateFails
    /\ hist.drops = SubSeq(hist.pulled, 1, CreateFails)
    /\ Submitted = SubSeq(hist.pulled, CreateFails + 1,
                          CreateFails + Len(hist.writes))
    /\ Len(hist.pulled) - CreateFails - Len(hist.writes)
          = (IF writerPc \in {"init", "setready", "write"} THEN 1 ELSE 0)
    /\ ready => CreateSucceeded
    /\ CreateSucceeded => (ready \/ writerPc = "setready")
    /\ (hist.writes # <<>> \/ writerPc = "write") => ready
    /\ IsOpen => writerPc \in {"select", "init", "setready", "write"}

\* C7's case: the create request failed twice and then succeeded; the first
\* two batches were dropped and the third was written.
C7_Witness ==
    /\ hist.creates = <<FALSE, FALSE, TRUE>>
    /\ Len(hist.drops) = 2
    /\ Len(hist.writes) = 1 /\ hist.writes[1].ok
    /\ hist.writes[1].batch = hist.pulled[3]
    /\ Ready

\* C8: every failed storage initialization is counted: each batch dropped
\* because the create request failed increases a failure counter of the
\* statistics by one, so that the batch counters account for every batch
\* the writer has pulled and finished with.
C8_InitFailureCounted ==
    writerPc \in {"select", "exited"} =>
        stats.BatchesTransmitted + stats.BatchesTransmitFail = Len(hist.pulled)

RECURSIVE SumLen(_)
SumLen(ws) ==
    IF ws = <<>> THEN 0
    ELSE (IF Head(ws).ok THEN Len(Head(ws).batch) ELSE 0) + SumLen(Tail(ws))

\* C9: a failed write is terminal for its batch only. Each step that submits
\* a batch changes the counters by the outcome: a failure adds one to
\* batchesTxFail and leaves batchesTx and pointsTx alone, a success adds one
\* to batchesTx and the batch length to pointsTx; the writer returns to its
\* select for the next batch, and no point is submitted twice.
C9_WriteFailureTerminal ==
    /\ [][Len(hist'.writes) = Len(hist.writes) + 1 =>
            LET w == hist'.writes[Len(hist'.writes)] IN
            /\ w.batch = batch
            /\ writerPc' = "select"
            /\ bOut' = bOut /\ bIn' = bIn /\ bBatch' = bBatch
            /\ IF w.ok
               THEN stats' = [stats EXCEPT
                                !.BatchesTransmitted = @ + 1,
                                !.PointsTransmitted = @ + Len(w.batch)]
               ELSE stats' = [stats EXCEPT !.BatchesTransmitFail = @ + 1]]_vars
    /\ [](\A i, j \in 1..Len(hist.writes) :
             i # j => Range(hist.writes[i].batch) \cap Range(hist.writes[j].batch) = {})
    /\ [](stats.PointsTransmitted = SumLen(hist.writes))

\* C9's case: a write failed and the next batch was written.
C9_Witness ==
    \E i \in 1..Len(hist.writes) :
        /\ ~hist.writes[i].ok
        /\ i < Len(hist.writes)
        /\ hist.writes[i + 1].ok
        /\ stats.BatchesTransmitFail = 1
        /\ stats.BatchesTransmitted = 1

\* The datagrams the parser has finished with, and whether it has one in
\* hand whose points it is forwarding or has yet to count.
Forwarding == parserPc \in {"fwd", "count"}
Finished ==
    IF Forwarding THEN SubSeq(hist.parsed, 1, Len(hist.parsed) - 1) ELSE hist.parsed

RECURSIVE PointsOf(_)
PointsOf(ds) ==
    IF ds = <<>> THEN <<>>
    ELSE (IF Head(ds).ok THEN ParsePoints(Head(ds)) ELSE <<>>) \o PointsOf(Tail(ds))

\* C10: the parse outcome of a datagram is all-or-nothing. pointsParseFail
\* counts the rejected datagrams, one each; pointsRx counts the points of
\* the accepted datagrams whose forwarding is complete; and the points
\* forwarded to the batcher are exactly the points of the accepted
\* datagrams, in order, followed by the points forwarded so far of the
\* datagram in hand, whose points are not counted yet.
C10_ParseAllOrNothing ==
    /\ stats.PointsParseFail =
          Cardinality({i \in 1..Len(hist.parsed) : ~hist.parsed[i].ok})
    /\ stats.PointsReceived = Len(PointsOf(Finished))
    /\ hist.fwd = PointsOf(Finished) \o
                  (IF Forwarding THEN SubSeq(points, 1, pidx - 1) ELSE <<>>)
    /\ Forwarding =>
          /\ hist.parsed[Len(hist.parsed)].ok
          /\ points = ParsePoints(hist.parsed[Len(hist.parsed)])
          /\ pidx \in 1..(Len(points) + 1)
          /\ (pidx = Len(points) + 1) <=> (parserPc = "count")

\* C10's case: one datagram was rejected and one with two points accepted
\* and wholly forwarded.
C10_Witness ==
    /\ Len(hist.parsed) = 2
    /\ ~Forwarding
    /\ stats.PointsParseFail = 1
    /\ stats.PointsReceived = 2
    /\ hist.fwd \in {<<<<1, 1>>, <<1, 2>>>>, <<<<2, 1>>, <<2, 2>>>>}

\* C10's other case: the parser is between the two points of a datagram.
C10_WitnessPartial == Forwarding /\ pidx = 2 /\ stats.PointsReceived = 0

\* The points of the batches written successfully.
WrittenPoints ==
    UNION {Range(hist.writes[i].batch) :
             i \in {j \in 1..Len(hist.writes) : hist.writes[j].ok}}

\* A create request or a write has failed, or the service is not Open.
Disturbed ==
    \/ ~IsOpen
    \/ \E i \in 1..Len(hist.creates) : ~hist.creates[i]
    \/ \E i \in 1..Len(hist.writes) : ~hist.writes[i].ok

\* Datagram k has gone through the pipeline: the parser has finished with
\* it, and if it was accepted its points are counted and written.
Handled(k) ==
    /\ Len(Finished) >= k
    /\ LET d == hist.parsed[k] IN
       d.ok =>
          /\ Range(ParsePoints(d)) \subseteq WrittenPoints
          /\ stats.PointsReceived >= d.n
          /\ stats.PointsTransmitted >= d.n
          /\ (d.n >= 1 => stats.BatchesTransmitted >= 1)

AllHandled == \A k \in 1..hist.nRecv : Handled(k)

\* C11: end-to-end progress while Open. Every datagram the receiver has read
\* is eventually parsed and, if accepted, its points are counted in pointsRx
\* and written in batches (batchesTx at least 1), unless the service leaves
\* the Open state or a create request or write fails; and once every
\* datagram read is through, pointsTx equals pointsRx.
C11_EndToEndProgress ==
    /\ \A k \in 1..MaxDatagrams :
          (hist.nRecv >= k) ~> (Handled(k) \/ Disturbed)
    /\ []((AllHandled /\ ~Disturbed /\ ~Forwarding)
             => stats.PointsTransmitted = stats.PointsReceived)

\* C11's case: the service has stayed Open since its only Open, two points
\* arrived in one datagram, were counted and written without any failure.
C11_Witness ==
    /\ IsOpen /\ hist.nOpens = 1 /\ ~Disturbed
    /\ hist.nRecv >= 1 /\ AllHandled
    /\ stats.PointsReceived = 2 /\ stats.PointsTransmitted = 2
    /\ stats.BatchesTransmitted >= 1

\* C12: the readiness flag is monotone. It starts false, it is true only
\* after a create request has succeeded, and once true it stays true across
\* later batches, failures, Close and Open.
C12_ReadyMonotone ==
    /\ ~ready
    /\ [][ready => ready']_vars
    /\ [](ready => CreateSucceeded)

\* C12's case: the flag was set in one lifetime, a write failed, and the
\* service was closed and opened again with the flag still set.
C12_Witness ==
    /\ ready
    /\ hist.nCloses >= 1 /\ IsOpen
    /\ \E i \in 1..Len(hist.writes) : ~hist.writes[i].ok

\* C13: the read error caused by Close closing the socket is not counted.
\* The readFail counter equals the number of read errors that occurred while
\* the termination signal had not fired.
C13_CloseReadErrorNotCounted == stats.ReadFail = hist.nReadErr

\* C14: no steady-state failure stops a stage. While the termination signal
\* of an Open service has not fired, the three workers launched by Open are
\* running, and a worker leaves its loop only in a step that observes the
\* fired signal: no read, decode, create or write error makes it exit.
C14_FailuresNeverStopWorkers ==
    /\ [](IsOpen => Running = 3)
    /\ [][(servePc # "exited" /\ servePc' = "exited") => done = "closed"]_vars
    /\ [][(parserPc # "exited" /\ parserPc' = "exited") => done = "closed"]_vars
    /\ [][(writerPc # "exited" /\ writerPc' = "exited") => done = "closed"]_vars

\* C14's case: a read error, a decode error, a create failure and a write
\* failure have all happened and the service is Open with three workers.
C14_Witness ==
    /\ IsOpen /\ Running = 3
    /\ hist.nReadErr >= 1
    /\ stats.PointsParseFail >= 1
    /\ CreateFails >= 1
    /\ stats.BatchesTransmitFail >= 1

\* C15: completion barrier. Whenever the service is Closed after a Close has
\* returned, no worker is running and the barrier is at zero, and until the
\* next Open no counter is updated, no write is submitted and no create
\* request is made.
C15_CompletionBarrier ==
    /\ []((hist.lifecycle = "Closed" /\ hist.nCloses >= 1)
             => (Running = 0 /\ wg = 0))
    /\ [][(hist.lifecycle = "Closed" /\ hist.nCloses >= 1)
             => /\ stats' = stats
                /\ hist'.writes = hist.writes
                /\ hist'.creates = hist.creates
                /\ hist'.drops = hist.drops]_vars

\* C15's case: Close has returned from a lifetime in which datagrams were
\* read and a batch was written, with a datagram still queued at shutdown.
C15_Witness ==
    /\ CloseReturned
    /\ hist.nRecv >= 2
    /\ Len(hist.writes) >= 1
    /\ hist.nDeq < hist.nEnq

\* C16: the receiver never blocks on the downstream stages. There is no
\* state in which the receiver waits to enqueue a datagram on the full
\* raw-byte queue while the parser has exited.
C16_ReceiverNeverBlocked ==
    ~(servePc = "send" /\ Len(parserChan) = parserChanLen /\ parserPc = "exited")

\* The number of times a signal has been fired: the Close calls that
\* returned from a shutdown and the one in progress.
Fired == hist.nCloses + (IF closePc = "wait" THEN 1 ELSE 0)

\* C17: the termination signal fires at most once per lifetime. Only a Close
\* that finds an unfired signal fires it, and it holds the lock until it
\* returns; no call fires a signal that was never created or that has fired
\* already, a fired signal is never reused, and no other Open or Close call
\* returns while a shutdown is in progress; the signals fired never
\* outnumber the signals created.
C17_FiresAtMostOnce ==
    /\ [][(done' = "closed" /\ done # "closed")
             => (done = "open" /\ closePc = "idle" /\ closePc' = "wait")]_vars
    /\ [][done = "closed" => done' \in {"closed", "nil"}]_vars
    /\ [][closePc = "wait" => (ret' = ret \/ closePc' = "idle")]_vars
    /\ [](closePc = "wait" <=> done = "closed")
    /\ [](Fired <= hist.nOpens)

\* C17's case: after a Close shut the service down, a second Close call
\* returned as a no-op and fired nothing.
C17_Witness ==
    /\ ret.op = "Close" /\ ret.noop
    /\ hist.nCloses = 1 /\ hist.nOpens = 1
    /\ done = "nil"

\* C18: reading or setting the readiness flag never waits for a lock held by
\* an Open or Close in progress. Whenever the writer is at the flag check or
\* at the flag assignment of the lazy initialization, it can take its step:
\* no Close holds the lock it needs.
C18_ReadyNeverWaitsForLifecycle ==
    /\ (writerPc = "init" => ENABLED WriterInit)
    /\ (writerPc = "setready" => ENABLED WriterSetReady)

\* The service is Open again after a Close has returned.
Reopened == IsOpen /\ hist.nCloses >= 1

ForwardedUncounted == IF Forwarding THEN pidx - 1 ELSE 0

\* C20 as stated: in every state pointsTx is at most pointsRx, and
\* batchesTx plus batchesTxFail is at most the number of batches the writer
\* has pulled from the batcher.
C20_CounterConsistency ==
    /\ stats.PointsTransmitted <= stats.PointsReceived
    /\ stats.BatchesTransmitted + stats.BatchesTransmitFail <= Len(hist.pulled)

\* C20, amended: in every state pointsTx is at most pointsRx plus the points
\* of the datagram in the parser's hand that are forwarded and not counted
\* yet, and batchesTx plus batchesTxFail is at most the number of batches
\* the writer has pulled from the batcher.
C20_CounterConsistencyAmended ==
    /\ stats.PointsTransmitted <= stats.PointsReceived + ForwardedUncounted
    /\ stats.BatchesTransmitted + stats.BatchesTransmitFail <= Len(hist.pulled)

\* C20's case: a point of the datagram in hand is written before the parser
\* has counted the datagram.
C20_Witness ==
    /\ Forwarding
    /\ stats.PointsTransmitted > stats.PointsReceived
    /\ stats.BatchesTransmitted >= 1

====
